---------------------------- MODULE Spec2Model ----------------------------
(***************************************************************************)
(* Rental application lifecycle of the NuloAfrica backend.                 *)
(*                                                                         *)
(* The state is the content of the storage tables the route handlers read  *)
(* and write (users, tenants, properties, applications, transactions,     *)
(* favorites) and the position and local variables of every request that   *)
(* is being served.                                                        *)
(* A handler is a sequence of storage calls; each call is one atomic step   *)
(* of the model, and steps of different requests interleave (spec section  *)
(* 5: requests are handled independently and can race on the same rows).   *)
(* A storage write can raise; the handler's `except Exception` then ends    *)
(* the request with a generic failure and the earlier writes stay.         *)
(***************************************************************************)
EXTENDS Integers, Sequences, FiniteSets, TLC

VARIABLES users, tenants, properties, applications, transactions, favorites, reqs

vars == <<users, tenants, properties, applications, transactions, favorites, reqs>>
tables == <<users, tenants, properties, applications, transactions, favorites>>

(***************************************************************************)
(* Bounds of the model.                                                    *)
(***************************************************************************)
\* number of requests served in a run; any number of them can be in service
\* at the same time
MaxReqs == 3

Null == "null"
Now == "ts"

ReqIds == 1..MaxReqs

TenantIds == {"t1", "t2"}
LandlordIds == {"l1", "l2"}
AdminIds == {"a1"}
UserIds == TenantIds \cup LandlordIds \cup AdminIds
PropIds == {"p1"}

\* users.user_type, fixed at registration (routes/auth.py) and never updated
user_type(u) == IF u \in TenantIds THEN "tenant"
                ELSE IF u \in LandlordIds THEN "landlord" ELSE "admin"

(***************************************************************************)
(* Profile Completion Engine.                                              *)
(***************************************************************************)
\* An Optional column: <<>> is None (SQL NULL), <<v>> holds v
None == <<>>
Some(v) == <<v>>

\* Python truthiness of an Optional[float]: None and 0.0 are falsy
TruthyNum(o) == o # None /\ o[1] # 0
\* Python truthiness of an Optional[str]: None and "" are falsy
TruthyStr(o) == o # None /\ o[1] # ""

\* the completion accumulated step by step: a step counts only after the
\* steps before it
calculate_profile_completion_accumulated(tenant_data) ==
    LET has_preferences == TruthyNum(tenant_data.budget)
                           /\ TruthyStr(tenant_data.preferred_location)
        has_documents == /\ TruthyStr(tenant_data.documents.id_document)
                         /\ TruthyStr(tenant_data.documents.proof_of_income)
    IN  IF ~has_preferences THEN 0
        ELSE IF ~has_documents THEN 33
        ELSE IF tenant_data.onboarding_completed = TRUE THEN 100 ELSE 67

calculate_profile_completion(tenant_data) ==
    LET has_preferences == TruthyNum(tenant_data.budget)
                           /\ TruthyStr(tenant_data.preferred_location)
        step1 == IF has_preferences THEN 33 ELSE 0
        \* a NULL or empty documents column is a record of two missing keys
        documents == tenant_data.documents
        has_documents == /\ TruthyStr(documents.id_document)
                         /\ TruthyStr(documents.proof_of_income)
        step2 == IF has_documents THEN 67 ELSE step1
    IN  IF tenant_data.onboarding_completed = TRUE THEN 100 ELSE step2

(***************************************************************************)
(* Rows.                                                                   *)
(***************************************************************************)
\* users row written by register
NewUser == [trust_score |-> 50, verification_status |-> "partial"]

\* tenants row written by register; the other columns are NULL
NoDocuments == [id_document |-> None, proof_of_income |-> None]

NewTenant == [budget |-> None, preferred_location |-> None, documents |-> NoDocuments,
              onboarding_completed |-> FALSE, profile_completion |-> 0]

\* properties row written by create_property
NewProperty(landlord, rent, st) ==
    [landlord_id |-> landlord, rent_amount |-> rent, status |-> st,
     application_count |-> 0, favorite_count |-> 0, deleted_at |-> Null]

\* a request slot that serves nothing
NoProperty == [landlord_id |-> Null, rent_amount |-> 0]

IdleReq == [kind |-> "idle", pc |-> "idle", caller |-> Null, result |-> Null,
            property_id |-> Null, application_id |-> 0, data |-> <<>>,
            property_data |-> NoProperty, application |-> 0, count |-> 0,
            completion |-> 0]

NewReq(k, u, start) == [IdleReq EXCEPT !.kind = k, !.pc = start, !.caller = u]

\* the handler returns or raises: its locals are gone, its answer stays
Done(q, res) == [IdleReq EXCEPT !.kind = q.kind, !.pc = "done", !.caller = q.caller,
                                !.result = res, !.property_id = q.property_id,
                                !.application_id = q.application_id,
                                !.application = q.application]

\* requests are numbered in the order of their arrival
Free(r) == reqs[r].pc = "idle" /\ \A i \in 1..(r - 1) : reqs[i].pc # "idle"

SetReq(r, q) == reqs' = [reqs EXCEPT ![r] = q]
Goto(r, label) == SetReq(r, [reqs[r] EXCEPT !.pc = label])
Finish(r, res) == SetReq(r, Done(reqs[r], res))
At(r, k, label) == reqs[r].kind = k /\ reqs[r].pc = label

(***************************************************************************)
(* create_application: POST /applications                                  *)
(***************************************************************************)
\* Depends(get_current_tenant), then the handler starts
StartSubmit(r, u, p) ==
    /\ Free(r)
    /\ IF user_type(u) # "tenant"
       THEN SetReq(r, Done(NewReq("create_application", u, "done"), "Forbidden"))
       ELSE SetReq(r, [NewReq("create_application", u, "check_profile")
                          EXCEPT !.property_id = p])
    /\ UNCHANGED tables

\* a gate that opens at the first step of the wizard
ProfileGateOpenAtStep1(profile_completion) == ~(profile_completion < 33)

\* the deferred-KYC gate on the stored profile_completion
ProfileGateOpen(profile_completion) == ~(profile_completion < 100)

\* the handler without its profile check
SubmitCheckProfileSkipped(r) ==
    /\ At(r, "create_application", "check_profile")
    /\ Goto(r, "check_property")
    /\ UNCHANGED tables

SubmitCheckProfile(r) ==
    /\ At(r, "create_application", "check_profile")
    /\ IF ProfileGateOpen(tenants[reqs[r].caller].profile_completion)
       THEN Goto(r, "check_property")
       ELSE Finish(r, "ProfileIncomplete")
    /\ UNCHANGED tables

SubmitCheckProperty(r) ==
    /\ At(r, "create_application", "check_property")
    /\ LET p == reqs[r].property_id IN
       IF p \in DOMAIN properties
       THEN SetReq(r, [reqs[r] EXCEPT !.pc = "check_existing",
                          !.property_data = [landlord_id |-> properties[p].landlord_id,
                                             rent_amount |-> properties[p].rent_amount]])
       ELSE Finish(r, "NotFound")
    /\ UNCHANGED tables

\* applications of one tenant for one property
ExistingApps(t, p) == {a \in DOMAIN applications :
                         applications[a].tenant_id = t /\ applications[a].property_id = p}

SubmitCheckExisting(r) ==
    /\ At(r, "create_application", "check_existing")
    /\ IF ExistingApps(reqs[r].caller, reqs[r].property_id) # {}
       THEN Finish(r, "DuplicateApplication")
       ELSE Goto(r, "insert_app")
    /\ UNCHANGED tables

NewApplication(t, p) ==
    [tenant_id |-> t, property_id |-> p, status |-> "submitted",
     rejection_reason |-> Null, reason_code |-> Null,
     reviewed_by |-> Null, reviewed_at |-> Null]

SubmitInsertApp(r) ==
    /\ At(r, "create_application", "insert_app")
    /\ \/ /\ applications' = Append(applications,
                                     NewApplication(reqs[r].caller, reqs[r].property_id))
          /\ SetReq(r, [reqs[r] EXCEPT !.pc = "insert_txn",
                                       !.application = Len(applications) + 1])
       \/ \* the insert raises, or returns no row
          /\ Finish(r, "Failed")
          /\ UNCHANGED applications
    /\ UNCHANGED <<users, tenants, properties, transactions, favorites>>

NewTransaction(q) ==
    [application_id |-> q.application, tenant_id |-> q.caller,
     landlord_id |-> q.property_data.landlord_id, property_id |-> q.property_id,
     amount |-> q.property_data.rent_amount, status |-> "held",
     released_at |-> Null, refunded_at |-> Null]

SubmitInsertTxn(r) ==
    /\ At(r, "create_application", "insert_txn")
    /\ \/ /\ transactions' = Append(transactions, NewTransaction(reqs[r]))
          /\ Goto(r, "read_count")
       \/ \* the insert returns no row: transaction_response.data is empty,
          \* nothing checks it and the handler goes on
          /\ Goto(r, "read_count")
          /\ UNCHANGED transactions
       \/ \* the insert raises
          /\ Finish(r, "Failed")
          /\ UNCHANGED transactions
    /\ UNCHANGED <<users, tenants, properties, applications, favorites>>

\* the inner select of the increment
SubmitReadCount(r) ==
    /\ At(r, "create_application", "read_count")
    /\ SetReq(r, [reqs[r] EXCEPT !.pc = "write_count",
                      !.count = properties[reqs[r].property_id].application_count])
    /\ UNCHANGED tables

\* the value the increment writes
IncrementedCount(q, stored) == q.count + 1

SubmitWriteCount(r) ==
    /\ At(r, "create_application", "write_count")
    /\ LET p == reqs[r].property_id IN
       \/ /\ properties' = [properties EXCEPT ![p].application_count =
                                 IncrementedCount(reqs[r], properties[p].application_count)]
          /\ Finish(r, "ok")
       \/ \* the update raises
          /\ Finish(r, "Failed")
          /\ UNCHANGED properties
    /\ UNCHANGED <<users, tenants, applications, transactions, favorites>>

(***************************************************************************)
(* approve_application, reject_application: PATCH /applications/{id}/...   *)
(***************************************************************************)
\* the status check left out
ReviewableAlways == {"submitted", "under_review", "approved", "rejected"}

\* statuses a landlord can still decide
Reviewable == {"submitted", "under_review"}

\* Depends(get_current_landlord), then the handler starts
StartReview(r, k, u, a, d) ==
    /\ Free(r)
    /\ IF user_type(u) # "landlord"
       THEN SetReq(r, Done(NewReq(k, u, "done"), "Forbidden"))
       ELSE SetReq(r, [NewReq(k, u, "fetch") EXCEPT !.application_id = a, !.data = d])
    /\ UNCHANGED tables

StartApprove(r, u, a) == StartReview(r, "approve_application", u, a, <<>>)

StartReject(r, u, a, rejection_data) ==
    StartReview(r, "reject_application", u, a, rejection_data)

\* the fetch of the application with its property, and the three checks
\* the owner check with the check removed
IsOwnerAlways(landlord_id, caller) == TRUE

\* application["properties"]["landlord_id"] != current_user["id"] -> 403
IsOwner(landlord_id, caller) == landlord_id = caller

ReviewFetch(r, k) ==
    /\ At(r, k, "fetch")
    /\ LET a == reqs[r].application_id IN
       IF a \notin DOMAIN applications
       THEN Finish(r, "NotFound")
       ELSE LET application == applications[a]
                p == application.property_id
            IN  IF p \notin DOMAIN properties
                   \/ ~IsOwner(properties[p].landlord_id, reqs[r].caller)
                THEN Finish(r, "Forbidden")
                ELSE IF application.status \notin Reviewable
                THEN Finish(r, "InvalidTransition")
                ELSE SetReq(r, [reqs[r] EXCEPT !.pc = "update_app", !.property_id = p])
    /\ UNCHANGED tables

\* an approve that refuses a property that is rented or deleted
ApproveFetchAvailable(r) ==
    LET a == reqs[r].application_id IN
    IF /\ a \in DOMAIN applications
       /\ \/ properties[applications[a].property_id].status = "rented"
          \/ properties[applications[a].property_id].deleted_at # Null
    THEN /\ At(r, "approve_application", "fetch")
         /\ Finish(r, "InvalidTransition")
         /\ UNCHANGED tables
    ELSE ReviewFetch(r, "approve_application")

ApproveFetch(r) == ReviewFetch(r, "approve_application")

RejectFetch(r) == ReviewFetch(r, "reject_application")

\* update(...).eq("id", application_id) on applications
UpdateApplication(a, row) == [applications EXCEPT ![a] = row]

\* update(...).eq("application_id", application_id) on transactions
UpdateTransactions(a, st, stamp) ==
    [i \in DOMAIN transactions |->
        IF transactions[i].application_id = a
        THEN [transactions[i] EXCEPT !.status = st, ![stamp] = Now]
        ELSE transactions[i]]

\* an approve that does not record the reviewer
ApprovedRowUnattributed(row, landlord_id) ==
    [row EXCEPT !.status = "approved", !.reviewed_at = Now]

ApprovedRow(row, landlord_id) ==
    [row EXCEPT !.status = "approved", !.reviewed_at = Now, !.reviewed_by = landlord_id]

ApproveUpdateApp(r) ==
    /\ At(r, "approve_application", "update_app")
    /\ LET a == reqs[r].application_id IN
       \/ /\ applications' = UpdateApplication(a, ApprovedRow(applications[a], reqs[r].caller))
          /\ Goto(r, "update_txn")
       \/ \* the update raises
          /\ Finish(r, "Failed")
          /\ UNCHANGED applications
    /\ UNCHANGED <<users, tenants, properties, transactions, favorites>>

ApproveUpdateTxn(r) ==
    /\ At(r, "approve_application", "update_txn")
    /\ \/ /\ transactions' = UpdateTransactions(reqs[r].application_id,
                                                 "released", "released_at")
          /\ Goto(r, "update_property")
       \/ \* the update raises
          /\ Finish(r, "Failed")
          /\ UNCHANGED transactions
    /\ UNCHANGED <<users, tenants, properties, applications, favorites>>

\* the property left as it is
RentedRowUntouched(row) == row

RentedRow(row) == [row EXCEPT !.status = "rented"]

ApproveUpdateProperty(r) ==
    /\ At(r, "approve_application", "update_property")
    /\ LET p == reqs[r].property_id IN
       \/ /\ properties' = [properties EXCEPT ![p] = RentedRow(properties[p])]
          /\ Finish(r, "ok")
       \/ \* the update raises
          /\ Finish(r, "Failed")
          /\ UNCHANGED properties
    /\ UNCHANGED <<users, tenants, applications, transactions, favorites>>

\* the reason code not stored
RejectedRowNoCode(row, landlord_id, rejection_data) ==
    [row EXCEPT !.status = "rejected",
                !.rejection_reason = rejection_data.reason,
                !.reviewed_at = Now, !.reviewed_by = landlord_id]

RejectedRow(row, landlord_id, rejection_data) ==
    [row EXCEPT !.status = "rejected",
                !.rejection_reason = rejection_data.reason,
                !.reason_code = rejection_data.reason_code,
                !.reviewed_at = Now, !.reviewed_by = landlord_id]

RejectUpdateApp(r) ==
    /\ At(r, "reject_application", "update_app")
    /\ LET a == reqs[r].application_id IN
       \/ /\ applications' = UpdateApplication(a,
                                 RejectedRow(applications[a], reqs[r].caller, reqs[r].data))
          /\ Goto(r, "update_txn")
       \/ \* the update raises
          /\ Finish(r, "Failed")
          /\ UNCHANGED applications
    /\ UNCHANGED <<users, tenants, properties, transactions, favorites>>

RejectUpdateTxn(r) ==
    /\ At(r, "reject_application", "update_txn")
    /\ \/ /\ transactions' = UpdateTransactions(reqs[r].application_id,
                                                 "refunded", "refunded_at")
          /\ Finish(r, "ok")
       \/ \* the update raises
          /\ Finish(r, "Failed")
          /\ UNCHANGED transactions
    /\ UNCHANGED <<users, tenants, properties, applications, favorites>>

(***************************************************************************)
(* update_tenant_profile: PATCH /tenants/profile                           *)
(* complete_profile: POST /tenants/complete-profile                        *)
(***************************************************************************)
\* Depends(get_current_tenant), then the handler starts
StartProfile(r, k, u, d) ==
    /\ Free(r)
    /\ IF user_type(u) # "tenant"
       THEN SetReq(r, Done(NewReq(k, u, "done"), "Forbidden"))
       ELSE SetReq(r, [NewReq(k, u, "update_tenant") EXCEPT !.data = d])
    /\ UNCHANGED tables

StartUpdateProfile(r, u, profile_data) ==
    StartProfile(r, "update_tenant_profile", u, profile_data)

StartCompleteProfile(r, u, profile_data) ==
    StartProfile(r, "complete_profile", u, profile_data)

\* an update that writes the whole row of a profile not yet completed
UpdatedTenantReset(row, d) ==
    [row EXCEPT !.budget = d.budget, !.preferred_location = d.preferred_location,
                !.onboarding_completed = FALSE]

\* the row after update(update_dict): dict(exclude_unset=True) holds the fields
\* the client sent, a sent None included
UpdatedTenant(row, d) ==
    [row EXCEPT !.budget = IF "budget" \in d.fields THEN d.budget ELSE @,
                !.preferred_location = IF "preferred_location" \in d.fields
                                       THEN d.preferred_location ELSE @]

UpdateProfileWrite(r) ==
    /\ At(r, "update_tenant_profile", "update_tenant")
    /\ LET t == reqs[r].caller
           tenant_data == UpdatedTenant(tenants[t], reqs[r].data)
       IN  \/ /\ tenants' = [tenants EXCEPT ![t] = tenant_data]
              /\ SetReq(r, [reqs[r] EXCEPT !.pc = "update_completion",
                                !.completion = calculate_profile_completion(tenant_data)])
           \/ \* the update raises, or returns no row
              /\ Finish(r, "Failed")
              /\ UNCHANGED tenants
    /\ UNCHANGED <<users, properties, applications, transactions, favorites>>

UpdateProfileWriteCompletion(r) ==
    /\ At(r, "update_tenant_profile", "update_completion")
    /\ LET t == reqs[r].caller IN
       \/ /\ tenants' = [tenants EXCEPT ![t].profile_completion = reqs[r].completion]
          /\ Finish(r, "ok")
       \/ \* the update raises
          /\ Finish(r, "Failed")
          /\ UNCHANGED tenants
    /\ UNCHANGED <<users, properties, applications, transactions, favorites>>

\* the row after complete_profile's update of the tenant
CompletedRow(row, d) ==
    [row EXCEPT !.budget = Some(d.budget),
                !.preferred_location = Some(d.preferred_location),
                !.documents = [id_document |-> Some(d.id_document_url),
                               proof_of_income |-> Some(d.proof_of_income_url)],
                !.profile_completion = 100,
                !.onboarding_completed = TRUE]

CompleteProfileWrite(r) ==
    /\ At(r, "complete_profile", "update_tenant")
    /\ LET t == reqs[r].caller IN
       \/ /\ tenants' = [tenants EXCEPT ![t] = CompletedRow(tenants[t], reqs[r].data)]
          /\ Goto(r, "update_user")
       \/ \* the update raises, or returns no row
          /\ Finish(r, "Failed")
          /\ UNCHANGED tenants
    /\ UNCHANGED <<users, properties, applications, transactions, favorites>>

\* the score without the bonus of the rent credit program
new_trust_score_no_bonus(d) == 70

\* Trust Score Engine
new_trust_score(d) == IF d.join_rent_credit THEN 70 + 10 ELSE 70

CompleteProfileUpdateUser(r) ==
    /\ At(r, "complete_profile", "update_user")
    /\ LET t == reqs[r].caller IN
       \/ /\ users' = [users EXCEPT ![t] = [trust_score |-> new_trust_score(reqs[r].data),
                                            verification_status |-> "approved"]]
          /\ Finish(r, "ok")
       \/ \* the update raises
          /\ Finish(r, "Failed")
          /\ UNCHANGED users
    /\ UNCHANGED <<tenants, properties, applications, transactions, favorites>>

(***************************************************************************)
(* The application lifecycle: tenants whose profile is complete apply for  *)
(* a listed property, and landlords decide.                                *)
(***************************************************************************)
\* the rows complete_profile leaves for a tenant (join_rent_credit false)
CompletedTenant ==
    [budget |-> Some(50000), preferred_location |-> Some("Lagos"),
     documents |-> [id_document |-> Some("id.pdf"), proof_of_income |-> Some("pay.pdf")],
     onboarding_completed |-> TRUE, profile_completion |-> 100]

CompletedUser == [trust_score |-> 70, verification_status |-> "approved"]

\* rent of the listed property (spec section 8, scenario 2)
Rent == 150000

RejectionInputs == {[reason |-> "not eligible", reason_code |-> "R1"]}

Init ==
    /\ users = [u \in UserIds |-> IF u \in TenantIds THEN CompletedUser ELSE NewUser]
    /\ tenants = [t \in TenantIds |-> CompletedTenant]
    /\ properties = [p \in PropIds |-> NewProperty("l1", Rent, "active")]
    /\ applications = <<>>
    /\ transactions = <<>>
    /\ favorites = <<>>
    /\ reqs = [r \in ReqIds |-> IdleReq]

SubmitStep(r) ==
    \/ SubmitCheckProfile(r)
    \/ SubmitCheckProperty(r)
    \/ SubmitCheckExisting(r)
    \/ SubmitInsertApp(r)
    \/ SubmitInsertTxn(r)
    \/ SubmitReadCount(r)
    \/ SubmitWriteCount(r)

ApproveStep(r) ==
    \/ ApproveFetch(r)
    \/ ApproveUpdateApp(r)
    \/ ApproveUpdateTxn(r)
    \/ ApproveUpdateProperty(r)

RejectStep(r) ==
    \/ RejectFetch(r)
    \/ RejectUpdateApp(r)
    \/ RejectUpdateTxn(r)

Next ==
    \E r \in ReqIds :
        \/ \E p \in PropIds : StartSubmit(r, "t1", p)
        \/ \E a \in DOMAIN applications : StartApprove(r, "l1", a)
        \/ \E a \in DOMAIN applications, d \in RejectionInputs :
              StartReject(r, "l1", a, d)
        \/ SubmitStep(r)
        \/ ApproveStep(r)
        \/ RejectStep(r)

Spec == Init /\ [][Next]_vars

(***************************************************************************)
(* The profile gate: a newly registered tenant edits and completes the     *)
(* profile while applying for a property.                                  *)
(***************************************************************************)
\* update_dict of a PATCH: one that sends only move_in_date, one that sends the
\* first step of the wizard, one that clears the budget
ProfileUpdateInputs ==
    {[fields |-> {}, budget |-> None, preferred_location |-> None],
     [fields |-> {"budget", "preferred_location"},
      budget |-> Some(50000), preferred_location |-> Some("Lagos")],
     [fields |-> {"budget"}, budget |-> None, preferred_location |-> None]}

CompleteProfileInputs ==
    {[budget |-> 50000, preferred_location |-> "Lagos", id_document_url |-> "id.pdf",
      proof_of_income_url |-> "pay.pdf", join_rent_credit |-> j] : j \in BOOLEAN}

InitRegistered ==
    /\ users = [u \in UserIds |-> NewUser]
    /\ tenants = [t \in TenantIds |-> NewTenant]
    /\ properties = [p \in PropIds |-> NewProperty("l1", Rent, "active")]
    /\ applications = <<>>
    /\ transactions = <<>>
    /\ favorites = <<>>
    /\ reqs = [r \in ReqIds |-> IdleReq]

UpdateProfileStep(r) ==
    \/ UpdateProfileWrite(r)
    \/ UpdateProfileWriteCompletion(r)

CompleteProfileStep(r) ==
    \/ CompleteProfileWrite(r)
    \/ CompleteProfileUpdateUser(r)

NextProfile ==
    \E r \in ReqIds :
        \/ \E d \in ProfileUpdateInputs : StartUpdateProfile(r, "t1", d)
        \/ \E d \in CompleteProfileInputs : StartCompleteProfile(r, "t1", d)
        \/ \E p \in PropIds : StartSubmit(r, "t1", p)
        \/ UpdateProfileStep(r)
        \/ CompleteProfileStep(r)
        \/ SubmitStep(r)

SpecProfile == InitRegistered /\ [][NextProfile]_vars

(***************************************************************************)
(* Submissions alone: two tenants apply for the same property.             *)
(***************************************************************************)
NextSubmit ==
    \E r \in ReqIds :
        \/ \E u \in TenantIds, p \in PropIds : StartSubmit(r, u, p)
        \/ SubmitStep(r)

SpecSubmit == Init /\ [][NextSubmit]_vars

(***************************************************************************)
(* add_favorite: POST /favorites, remove_favorite: DELETE /favorites/{id}  *)
(***************************************************************************)
\* the favorites rows of a tenant for a property
ExistingFavs(t, p) ==
    {i \in DOMAIN favorites : /\ favorites[i].tenant_id = t
                              /\ favorites[i].property_id = p}

\* Depends(get_current_tenant), then the handler starts
StartFavorite(r, k, u, p, start) ==
    /\ Free(r)
    /\ IF user_type(u) # "tenant"
       THEN SetReq(r, Done(NewReq(k, u, "done"), "Forbidden"))
       ELSE SetReq(r, [NewReq(k, u, start) EXCEPT !.property_id = p])
    /\ UNCHANGED tables

StartAddFavorite(r, u, p) == StartFavorite(r, "add_favorite", u, p, "check_property")

StartRemoveFavorite(r, u, p) == StartFavorite(r, "remove_favorite", u, p, "check_existing")

AddFavoriteCheckProperty(r) ==
    /\ At(r, "add_favorite", "check_property")
    /\ IF reqs[r].property_id \notin DOMAIN properties
       THEN Finish(r, "NotFound")
       ELSE Goto(r, "check_existing")
    /\ UNCHANGED tables

AddFavoriteCheckExisting(r) ==
    /\ At(r, "add_favorite", "check_existing")
    /\ IF ExistingFavs(reqs[r].caller, reqs[r].property_id) # {}
       THEN Finish(r, "AlreadyFavorited")
       ELSE Goto(r, "insert_fav")
    /\ UNCHANGED tables

AddFavoriteInsert(r) ==
    /\ At(r, "add_favorite", "insert_fav")
    /\ \/ /\ favorites' = Append(favorites, [tenant_id |-> reqs[r].caller,
                                             property_id |-> reqs[r].property_id])
          /\ Goto(r, "read_count")
       \/ /\ Finish(r, "Failed")
          /\ UNCHANGED favorites
    /\ UNCHANGED <<users, tenants, properties, applications, transactions>>

\* select("favorite_count") of either handler
FavoriteReadCount(r, k) ==
    /\ At(r, k, "read_count")
    /\ SetReq(r, [reqs[r] EXCEPT !.pc = "write_count",
                                 !.count = properties[reqs[r].property_id].favorite_count])
    /\ UNCHANGED tables

AddFavoriteReadCount(r) == FavoriteReadCount(r, "add_favorite")

\* update({"favorite_count": ...}) of either handler, then the return
FavoriteWriteCount(r, k, value) ==
    /\ At(r, k, "write_count")
    /\ \/ /\ properties' = [properties EXCEPT
                               ![reqs[r].property_id].favorite_count = value]
          /\ Finish(r, "ok")
       \/ /\ Finish(r, "Failed")
          /\ UNCHANGED properties
    /\ UNCHANGED <<users, tenants, applications, transactions, favorites>>

AddFavoriteWriteCount(r) == FavoriteWriteCount(r, "add_favorite", reqs[r].count + 1)

RemoveFavoriteCheckExisting(r) ==
    /\ At(r, "remove_favorite", "check_existing")
    /\ IF ExistingFavs(reqs[r].caller, reqs[r].property_id) = {}
       THEN Finish(r, "NotFound")
       ELSE Goto(r, "delete_fav")
    /\ UNCHANGED tables

\* delete().eq("tenant_id", ...).eq("property_id", ...)
WithoutFavs(t, p) ==
    LET keep(f) == ~(f.tenant_id = t /\ f.property_id = p)
    IN  SelectSeq(favorites, keep)

RemoveFavoriteDelete(r) ==
    /\ At(r, "remove_favorite", "delete_fav")
    /\ \/ /\ favorites' = WithoutFavs(reqs[r].caller, reqs[r].property_id)
          /\ Goto(r, "read_count")
       \/ /\ Finish(r, "Failed")
          /\ UNCHANGED favorites
    /\ UNCHANGED <<users, tenants, properties, applications, transactions>>

RemoveFavoriteReadCount(r) == FavoriteReadCount(r, "remove_favorite")

\* the decrement without its floor
DecrementedCountNoFloor(stored) == stored - 1

\* max(0, favorite_count - 1)
DecrementedCount(stored) == IF stored - 1 > 0 THEN stored - 1 ELSE 0

RemoveFavoriteWriteCount(r) ==
    FavoriteWriteCount(r, "remove_favorite", DecrementedCount(reqs[r].count))

AddFavoriteStep(r) ==
    \/ AddFavoriteCheckProperty(r)
    \/ AddFavoriteCheckExisting(r)
    \/ AddFavoriteInsert(r)
    \/ AddFavoriteReadCount(r)
    \/ AddFavoriteWriteCount(r)

RemoveFavoriteStep(r) ==
    \/ RemoveFavoriteCheckExisting(r)
    \/ RemoveFavoriteDelete(r)
    \/ RemoveFavoriteReadCount(r)
    \/ RemoveFavoriteWriteCount(r)

(***************************************************************************)
(* Favorites: two tenants add and remove the same property.                *)
(***************************************************************************)
NextFavorites ==
    \E r \in ReqIds :
        \/ \E u \in TenantIds, p \in PropIds : StartAddFavorite(r, u, p)
        \/ \E u \in TenantIds, p \in PropIds : StartRemoveFavorite(r, u, p)
        \/ AddFavoriteStep(r)
        \/ RemoveFavoriteStep(r)

SpecFavorites == Init /\ [][NextFavorites]_vars

(***************************************************************************)
(* Counters of a property: a tenant adds and removes a favorite and        *)
(* applies for the property.                                               *)
(***************************************************************************)
NextCounters ==
    \E r \in ReqIds :
        \/ \E p \in PropIds : StartAddFavorite(r, "t1", p)
        \/ \E p \in PropIds : StartRemoveFavorite(r, "t1", p)
        \/ \E p \in PropIds : StartSubmit(r, "t1", p)
        \/ AddFavoriteStep(r)
        \/ RemoveFavoriteStep(r)
        \/ SubmitStep(r)

SpecCounters == Init /\ [][NextCounters]_vars

(***************************************************************************)
(* create_property, update_property, delete_property (routes/properties)   *)
(***************************************************************************)
\* Literal["draft", "active", "rented", "inactive"]
PropertyStatus == {"draft", "active", "rented", "inactive"}

\* ids the storage gives to properties created during a run
NewPropIds == {"p2"}

\* Depends(get_current_landlord), then the handler starts
StartProperty(r, k, u, p, d, start) ==
    /\ Free(r)
    /\ IF user_type(u) # "landlord"
       THEN SetReq(r, Done(NewReq(k, u, "done"), "Forbidden"))
       ELSE SetReq(r, [NewReq(k, u, start) EXCEPT !.property_id = p, !.data = d])
    /\ UNCHANGED tables

StartCreateProperty(r, u, d) ==
    /\ d.status \in PropertyStatus
    /\ StartProperty(r, "create_property", u, Null, d, "insert_property")

\* insert(property_dict), the landlord read and the return
CreatePropertyInsert(r) ==
    /\ At(r, "create_property", "insert_property")
    /\ \/ \E p \in NewPropIds \ DOMAIN properties :
             /\ properties' = [x \in DOMAIN properties \cup {p} |->
                                  IF x = p
                                  THEN NewProperty(reqs[r].caller, reqs[r].data.rent_amount,
                                                   reqs[r].data.status)
                                  ELSE properties[x]]
             /\ SetReq(r, Done([reqs[r] EXCEPT !.property_id = p], "ok"))
       \/ /\ Finish(r, "Failed")
          /\ UNCHANGED properties
    /\ UNCHANGED <<users, tenants, applications, transactions, favorites>>

StartUpdateProperty(r, u, p, d) ==
    /\ d.status \in PropertyStatus
    /\ StartProperty(r, "update_property", u, p, d, "check_owner")

StartDeleteProperty(r, u, p) ==
    StartProperty(r, "delete_property", u, p, <<>>, "check_owner")

\* "Verify ownership" of update_property and delete_property
PropertyCheckOwner(r, k) ==
    /\ At(r, k, "check_owner")
    /\ LET p == reqs[r].property_id IN
       IF p \notin DOMAIN properties \/ properties[p].landlord_id # reqs[r].caller
       THEN Finish(r, "Forbidden")
       ELSE Goto(r, "update_property")
    /\ UNCHANGED tables

UpdatePropertyCheckOwner(r) == PropertyCheckOwner(r, "update_property")

DeletePropertyCheckOwner(r) == PropertyCheckOwner(r, "delete_property")

\* update(update_dict) with update_dict = {"status": ...}
UpdatedProperty(row, d) == [row EXCEPT !.status = d.status]

UpdatePropertyWrite(r) ==
    /\ At(r, "update_property", "update_property")
    /\ LET p == reqs[r].property_id IN
       \/ /\ properties' = [properties EXCEPT ![p] = UpdatedProperty(@, reqs[r].data)]
          /\ Finish(r, "ok")
       \/ /\ Finish(r, "Failed")
          /\ UNCHANGED properties
    /\ UNCHANGED <<users, tenants, applications, transactions, favorites>>

\* update({"deleted_at": now, "status": "inactive"})
DeletedProperty(row) == [row EXCEPT !.deleted_at = Now, !.status = "inactive"]

DeletePropertyWrite(r) ==
    /\ At(r, "delete_property", "update_property")
    /\ LET p == reqs[r].property_id IN
       \/ /\ properties' = [properties EXCEPT ![p] = DeletedProperty(@)]
          /\ Finish(r, "ok")
       \/ /\ Finish(r, "Failed")
          /\ UNCHANGED properties
    /\ UNCHANGED <<users, tenants, applications, transactions, favorites>>

CreatePropertyStep(r) == CreatePropertyInsert(r)

UpdatePropertyStep(r) ==
    \/ UpdatePropertyCheckOwner(r)
    \/ UpdatePropertyWrite(r)

DeletePropertyStep(r) ==
    \/ DeletePropertyCheckOwner(r)
    \/ DeletePropertyWrite(r)

(***************************************************************************)
(* A landlord manages the listing while an application for it is made and  *)
(* reviewed.                                                               *)
(***************************************************************************)
\* a PropertyCreate with the default status and one that sets it
PropertyCreateInputs == {[rent_amount |-> Rent, status |-> s] : s \in {"draft", "rented"}}

\* a PropertyUpdate that sets the status only
PropertyUpdateInputs == {[status |-> s] : s \in {"active", "rented"}}

NextProperties ==
    \E r \in ReqIds :
        \/ \E p \in PropIds : StartSubmit(r, "t1", p)
        \/ \E a \in DOMAIN applications : StartApprove(r, "l1", a)
        \/ \E a \in DOMAIN applications, d \in RejectionInputs :
              StartReject(r, "l1", a, d)
        \/ \E d \in PropertyCreateInputs : StartCreateProperty(r, "l1", d)
        \/ \E p \in PropIds, d \in PropertyUpdateInputs : StartUpdateProperty(r, "l1", p, d)
        \/ \E p \in PropIds : StartDeleteProperty(r, "l1", p)
        \/ SubmitStep(r)
        \/ ApproveStep(r)
        \/ RejectStep(r)
        \/ CreatePropertyStep(r)
        \/ UpdatePropertyStep(r)
        \/ DeletePropertyStep(r)

SpecProperties == Init /\ [][NextProperties]_vars

(***************************************************************************)
(* get_profile_status: GET /tenants/profile-status                         *)
(***************************************************************************)
StartProfileStatus(r, u) ==
    /\ Free(r)
    /\ IF user_type(u) # "tenant"
       THEN SetReq(r, Done(NewReq("get_profile_status", u, "done"), "Forbidden"))
       ELSE SetReq(r, NewReq("get_profile_status", u, "fetch_tenant"))
    /\ UNCHANGED tables

\* select("*") on tenants
ProfileStatusFetchTenant(r) ==
    /\ At(r, "get_profile_status", "fetch_tenant")
    /\ SetReq(r, [reqs[r] EXCEPT !.pc = "fetch_user", !.data = tenants[reqs[r].caller]])
    /\ UNCHANGED tables

\* "can_apply": completion >= 100
can_apply(completion) == completion >= 100

\* select on users, then the answer: profile_completion and can_apply
ProfileStatusAnswer(r) ==
    /\ At(r, "get_profile_status", "fetch_user")
    /\ LET completion == calculate_profile_completion(reqs[r].data) IN
       SetReq(r, [Done(reqs[r], IF can_apply(completion) THEN "can_apply"
                                                         ELSE "cannot_apply")
                     EXCEPT !.completion = completion])
    /\ UNCHANGED tables

ProfileStatusStep(r) ==
    \/ ProfileStatusFetchTenant(r)
    \/ ProfileStatusAnswer(r)

(***************************************************************************)
(* The completion of any stored profile: the tenants row of t1 holds any   *)
(* combination of missing, empty and filled fields, and the tenant asks    *)
(* for the profile status.                                                 *)
(***************************************************************************)
BudgetValues == {None, Some(0), Some(50000)}
LocationValues == {None, Some(""), Some("Lagos")}
IdDocumentValues == {None, Some("id.pdf")}
ProofOfIncomeValues == {None, Some("pay.pdf")}

ProfileRows ==
    {[budget |-> b, preferred_location |-> l,
      documents |-> [id_document |-> i, proof_of_income |-> p],
      onboarding_completed |-> o, profile_completion |-> 0] :
        b \in BudgetValues, l \in LocationValues, i \in IdDocumentValues,
        p \in ProofOfIncomeValues, o \in BOOLEAN}

InitCompletion ==
    /\ users = [u \in UserIds |-> NewUser]
    /\ \E row \in ProfileRows :
          tenants = [t \in TenantIds |-> IF t = "t1" THEN row ELSE NewTenant]
    /\ properties = [p \in PropIds |-> NewProperty("l1", Rent, "active")]
    /\ applications = <<>>
    /\ transactions = <<>>
    /\ favorites = <<>>
    /\ reqs = [r \in ReqIds |-> IdleReq]

NextCompletion ==
    \E r \in ReqIds :
        \/ StartProfileStatus(r, "t1")
        \/ ProfileStatusStep(r)

SpecCompletion == InitCompletion /\ [][NextCompletion]_vars

(***************************************************************************)
(* get_applications: GET /applications                                     *)
(***************************************************************************)
\* the listing with the filter on the landlord removed
LandlordApplicationsUnfiltered(u) == DOMAIN applications

\* select(...).eq("tenant_id", user_id)
TenantApplications(u) == {a \in DOMAIN applications : applications[a].tenant_id = u}

\* select("*, property:properties!inner(...)").eq("property.landlord_id", user_id)
LandlordApplications(u) ==
    {a \in DOMAIN applications :
        /\ applications[a].property_id \in DOMAIN properties
        /\ properties[applications[a].property_id].landlord_id = u}

\* Depends(get_current_user), then the branch on user_type
StartList(r, u) ==
    /\ Free(r)
    /\ IF user_type(u) \notin {"tenant", "landlord"}
       THEN SetReq(r, Done(NewReq("get_applications", u, "done"), "Forbidden"))
       ELSE SetReq(r, NewReq("get_applications", u, "select"))
    /\ UNCHANGED tables

\* the select of the caller's branch and the return of response.data
ListSelect(r) ==
    /\ At(r, "get_applications", "select")
    /\ LET u == reqs[r].caller
           listed == IF user_type(u) = "tenant" THEN TenantApplications(u)
                                                ELSE LandlordApplications(u)
       IN  SetReq(r, [Done(reqs[r], "ok") EXCEPT !.data = listed])
    /\ UNCHANGED tables

(***************************************************************************)
(* Listings: t1 has applied for the property of l1, t2 applies for it, and *)
(* every user lists the applications.                                      *)
(***************************************************************************)
\* the tables after t1 has applied for p1
InitListed ==
    /\ users = [u \in UserIds |-> IF u \in TenantIds THEN CompletedUser ELSE NewUser]
    /\ tenants = [t \in TenantIds |-> CompletedTenant]
    /\ properties = [p \in PropIds |->
                        [NewProperty("l1", Rent, "active") EXCEPT !.application_count = 1]]
    /\ applications = <<NewApplication("t1", "p1")>>
    /\ transactions = <<NewTransaction([application |-> 1, caller |-> "t1",
                                         property_id |-> "p1",
                                         property_data |-> [landlord_id |-> "l1",
                                                            rent_amount |-> Rent]])>>
    /\ favorites = <<>>
    /\ reqs = [r \in ReqIds |-> IdleReq]

NextList ==
    \E r \in ReqIds :
        \/ \E p \in PropIds : StartSubmit(r, "t2", p)
        \/ \E u \in UserIds : StartList(r, u)
        \/ SubmitStep(r)
        \/ ListSelect(r)

SpecList == InitListed /\ [][NextList]_vars

(***************************************************************************)
(* Preconditions of a submit: t1 has completed the profile, t2 has only    *)
(* registered; users of every role apply for the listed property and for a *)
(* property that does not exist.                                           *)
(***************************************************************************)
\* a property id that no row has
MissingPropIds == {"p0"}

InitMixed ==
    /\ users = [u \in UserIds |-> IF u = "t1" THEN CompletedUser ELSE NewUser]
    /\ tenants = [t \in TenantIds |-> IF t = "t1" THEN CompletedTenant ELSE NewTenant]
    /\ properties = [p \in PropIds |-> NewProperty("l1", Rent, "active")]
    /\ applications = <<>>
    /\ transactions = <<>>
    /\ favorites = <<>>
    /\ reqs = [r \in ReqIds |-> IdleReq]

NextPreconditions ==
    \E r \in ReqIds :
        \/ \E u \in {"t1", "t2", "l1", "a1"}, p \in PropIds \cup MissingPropIds :
              StartSubmit(r, u, p)
        \/ SubmitStep(r)

SpecPreconditions == InitMixed /\ [][NextPreconditions]_vars

(***************************************************************************)
(* Two applications for one property: t1 and t2 have applied for p1; l1    *)
(* reviews the applications and deletes the property.                      *)
(***************************************************************************)
\* the tables after t1 and t2 have applied for p1
InitTwoApplied ==
    /\ users = [u \in UserIds |-> IF u \in TenantIds THEN CompletedUser ELSE NewUser]
    /\ tenants = [t \in TenantIds |-> CompletedTenant]
    /\ properties = [p \in PropIds |->
                        [NewProperty("l1", Rent, "active") EXCEPT !.application_count = 2]]
    /\ applications = <<NewApplication("t1", "p1"), NewApplication("t2", "p1")>>
    /\ transactions = [a \in {1, 2} |->
                          NewTransaction([application |-> a,
                                          caller |-> applications[a].tenant_id,
                                          property_id |-> "p1",
                                          property_data |-> [landlord_id |-> "l1",
                                                             rent_amount |-> Rent]])]
    /\ favorites = <<>>
    /\ reqs = [r \in ReqIds |-> IdleReq]

NextTwoApplied ==
    \E r \in ReqIds :
        \/ \E a \in DOMAIN applications : StartApprove(r, "l1", a)
        \/ \E a \in DOMAIN applications, d \in RejectionInputs : StartReject(r, "l1", a, d)
        \/ \E p \in PropIds : StartDeleteProperty(r, "l1", p)
        \/ ApproveStep(r)
        \/ RejectStep(r)
        \/ DeletePropertyStep(r)

SpecTwoApplied == InitTwoApplied /\ [][NextTwoApplied]_vars

(***************************************************************************)
(* Reviews by users of every role: t1 has applied for the property of l1,  *)
(* and any user tries to approve or reject the application.                *)
(***************************************************************************)
NextAttribution ==
    \E r \in ReqIds :
        \/ \E u \in UserIds, a \in DOMAIN applications : StartApprove(r, u, a)
        \/ \E u \in UserIds, a \in DOMAIN applications, d \in RejectionInputs :
              StartReject(r, u, a, d)
        \/ ApproveStep(r)
        \/ RejectStep(r)

SpecAttribution == InitListed /\ [][NextAttribution]_vars

(***************************************************************************)
(* Reviews by any landlord: l1 owns the property, l2 does not.             *)
(***************************************************************************)
NextOwner ==
    \E r \in ReqIds :
        \/ \E p \in PropIds : StartSubmit(r, "t1", p)
        \/ \E u \in LandlordIds, a \in DOMAIN applications : StartApprove(r, u, a)
        \/ \E u \in LandlordIds, a \in DOMAIN applications, d \in RejectionInputs :
              StartReject(r, u, a, d)
        \/ SubmitStep(r)
        \/ ApproveStep(r)
        \/ RejectStep(r)

SpecOwner == Init /\ [][NextOwner]_vars

(***************************************************************************)
(* Properties.                                                             *)
(***************************************************************************)
Terminal == {"approved", "rejected"}
ReviewKinds == {"approve_application", "reject_application"}

\* request r takes a step
Steps(r) == reqs'[r] # reqs[r]
\* request r ends in this step with answer res
Returns(r, res) == Steps(r) /\ reqs'[r].pc = "done" /\ reqs'[r].result = res

TransactionsOf(a) == {i \in DOMAIN transactions : transactions[i].application_id = a}

\* the escrow status that mirrors an application status
EscrowStatusFor(st) ==
    CASE st = "approved" -> "released"
      [] st = "rejected" -> "refunded"
      [] OTHER -> "held"

\* C1: in every reachable state, the states between the storage writes of a
\* request and those a failed write leaves included, every escrow transaction
\* of an application has the status that mirrors the application's status.
C1_EscrowMirrorsApplication ==
    \A a \in DOMAIN applications : \A i \in TransactionsOf(a) :
        transactions[i].status = EscrowStatusFor(applications[a].status)

\* C2: submit is all-or-nothing: a submit that ended in a failure has left
\* no application row behind.
C2_FailedSubmitLeavesNothing ==
    \A r \in ReqIds :
        (reqs[r].kind = "create_application" /\ reqs[r].pc = "done"
            /\ reqs[r].result = "Failed")
        => reqs[r].application \notin DOMAIN applications

\* C3: whatever the interleaving of concurrent submits of one tenant for one
\* property, at most one application row exists for the pair.
C3_OneApplicationPerPair ==
    \A t \in TenantIds, p \in PropIds : Cardinality(ExistingApps(t, p)) <= 1

\* C4: of the approve calls on one application at most one returns success.
C4_AtMostOneApproveSucceeds ==
    \A a \in DOMAIN applications :
        Cardinality({r \in ReqIds : /\ reqs[r].kind = "approve_application"
                                    /\ reqs[r].pc = "done"
                                    /\ reqs[r].result = "ok"
                                    /\ reqs[r].application_id = a}) <= 1

\* C5: terminal states are absorbing: no step changes an application row
\* whose stored status is approved or rejected.
C5_TerminalAbsorbing ==
    [][\A a \in DOMAIN applications :
          applications[a].status \in Terminal => applications'[a] = applications[a]]_vars

\* C6: an approve or reject by the owning landlord that finds the application
\* already approved or rejected returns InvalidTransition and writes nothing.
C6_DecidedApplicationNotReviewedAgain ==
    [][\A r \in ReqIds :
          LET a == reqs[r].application_id IN
          (/\ reqs[r].kind \in ReviewKinds
           /\ reqs[r].pc = "fetch"
           /\ Steps(r)
           /\ a \in DOMAIN applications
           /\ applications[a].status \in Terminal
           /\ properties[applications[a].property_id].landlord_id = reqs[r].caller)
          => /\ Returns(r, "InvalidTransition")
             /\ UNCHANGED tables]_vars

\* C6 witness: an approve returned success and a later approve or reject of
\* the same application was turned down
C6_Witness ==
    \E r1, r2 \in ReqIds :
        /\ reqs[r1].kind = "approve_application" /\ reqs[r1].result = "ok"
        /\ reqs[r2].kind \in ReviewKinds /\ reqs[r2].result = "InvalidTransition"
        /\ reqs[r2].application_id = reqs[r1].application_id

\* C7: a submit that reads the gate while compute(current profile fields) is
\* below 100 ends with ProfileIncomplete and changes no application, no escrow
\* transaction and no property, whatever profile requests ran or run beside it.
C7_ProfileGate ==
    [][\A r \in ReqIds :
          (/\ At(r, "create_application", "check_profile")
           /\ Steps(r)
           /\ calculate_profile_completion(tenants[reqs[r].caller]) < 100)
          => /\ Returns(r, "ProfileIncomplete")
             /\ UNCHANGED <<applications, transactions, properties>>]_vars

\* C7 witness: a submit was refused at the gate after a profile update had
\* stored the first step of the wizard, and nothing was created
C7_Witness ==
    /\ \E r \in ReqIds : /\ reqs[r].kind = "create_application"
                          /\ reqs[r].result = "ProfileIncomplete"
    /\ tenants["t1"].profile_completion = 33
    /\ calculate_profile_completion(tenants["t1"]) = 33
    /\ applications = <<>> /\ transactions = <<>>
    /\ properties["p1"].application_count = 0

\* C8: a successful submit inserts exactly one application in status submitted,
\* exactly one held escrow transaction for it with the rent it read, and its
\* counter write raises application_count by exactly 1 and changes nothing else
\* of the property.
C8_SubmitEffects ==
    [][\A r \in ReqIds :
          (Steps(r) /\ reqs'[r].kind = "create_application") =>
          LET q == reqs[r] IN
          /\ reqs'[r].pc = "insert_txn" =>
                /\ q.pc = "insert_app"
                /\ applications' = Append(applications,
                        [tenant_id |-> q.caller, property_id |-> q.property_id,
                         status |-> "submitted", rejection_reason |-> Null,
                         reason_code |-> Null, reviewed_by |-> Null, reviewed_at |-> Null])
          /\ reqs'[r].pc = "read_count" =>
                /\ q.pc = "insert_txn"
                /\ Len(transactions') = Len(transactions) + 1
                /\ LET t == transactions'[Len(transactions')] IN
                      /\ t.application_id = q.application
                      /\ t.status = "held"
                      /\ t.amount = q.property_data.rent_amount
          /\ Returns(r, "ok") =>
                /\ q.pc = "write_count"
                /\ properties' = [properties EXCEPT ![q.property_id].application_count
                                      = properties[q.property_id].application_count + 1]]_vars

\* C9: a successful approve has set the application to approved, then its
\* escrow transactions to released, then the property's status to rented.
C9_ApproveEffects ==
    [][\A r \in ReqIds :
          (Steps(r) /\ reqs'[r].kind = "approve_application") =>
          LET q == reqs[r]
              a == reqs'[r].application_id
          IN
          /\ reqs'[r].pc = "update_app" =>
                /\ q.pc = "fetch"
                /\ applications[a].status \in {"submitted", "under_review"}
                /\ properties[applications[a].property_id].landlord_id = q.caller
          /\ reqs'[r].pc = "update_txn" =>
                /\ q.pc = "update_app"
                /\ applications'[a].status = "approved"
          /\ reqs'[r].pc = "update_property" =>
                /\ q.pc = "update_txn"
                /\ \A i \in TransactionsOf(a) : transactions'[i].status = "released"
          /\ Returns(r, "ok") =>
                /\ q.pc = "update_property"
                /\ properties'[applications[a].property_id].status = "rented"]_vars

\* C9 witness: an approve returned success; the application is approved, its
\* escrow transaction released and the property rented
C9_Witness ==
    \E r \in ReqIds :
        /\ reqs[r].kind = "approve_application" /\ reqs[r].result = "ok"
        /\ LET a == reqs[r].application_id IN
              /\ applications[a].status = "approved"
              /\ \E i \in TransactionsOf(a) : transactions[i].status = "released"
              /\ properties[applications[a].property_id].status = "rented"

\* C10: a successful reject has set the application to rejected with the
\* supplied reason and reason code, then its escrow transactions to refunded;
\* no step of a reject changes a property.
C10_RejectEffects ==
    [][\A r \in ReqIds :
          (Steps(r) /\ reqs'[r].kind = "reject_application") =>
          LET q == reqs[r]
              a == reqs'[r].application_id
          IN
          /\ reqs'[r].pc = "update_txn" =>
                /\ q.pc = "update_app"
                /\ applications'[a].status = "rejected"
                /\ applications'[a].rejection_reason = q.data.reason
                /\ applications'[a].reason_code = q.data.reason_code
          /\ Returns(r, "ok") =>
                /\ q.pc = "update_txn"
                /\ \A i \in TransactionsOf(a) : transactions'[i].status = "refunded"
          /\ UNCHANGED properties]_vars

\* C10 witness: a reject returned success; the application is rejected with
\* the reason stored, its escrow transaction refunded, and the property is
\* still active with its counter at the number of applications
C10_Witness ==
    \E r \in ReqIds :
        /\ reqs[r].kind = "reject_application" /\ reqs[r].result = "ok"
        /\ LET a == reqs[r].application_id IN
              /\ applications[a].status = "rejected"
              /\ applications[a].rejection_reason = "not eligible"
              /\ applications[a].reason_code = "R1"
              /\ \E i \in TransactionsOf(a) : transactions[i].status = "refunded"
              /\ properties[applications[a].property_id].status = "active"
              /\ properties[applications[a].property_id].application_count = 1

\* C11: an approve or reject by a landlord who does not own the property of
\* the application ends with Forbidden at its fetch, whatever the status of the
\* application, and no step of such a request changes a table.
C11_NonOwnerForbidden ==
    [][\A r \in ReqIds :
          LET a == reqs[r].application_id IN
          (/\ reqs[r].kind \in ReviewKinds
           /\ Steps(r)
           /\ a \in DOMAIN applications
           /\ properties[applications[a].property_id].landlord_id # reqs[r].caller)
          => /\ reqs[r].pc = "fetch"
             /\ Returns(r, "Forbidden")
             /\ UNCHANGED tables]_vars

\* C11 witness: the landlord who does not own the property was refused on an
\* application that is approved, and the one who owns it was not
C11_Witness ==
    \E r1, r2 \in ReqIds :
        /\ reqs[r1].kind \in ReviewKinds /\ reqs[r1].caller = "l2"
        /\ reqs[r1].result = "Forbidden"
        /\ reqs[r2].kind = "approve_application" /\ reqs[r2].caller = "l1"
        /\ reqs[r2].result = "ok" /\ r2 < r1
        /\ reqs[r2].application_id = reqs[r1].application_id
        /\ applications[reqs[r1].application_id].status = "approved"

\* no request is in service
Quiescent == \A r \in ReqIds : reqs[r].pc \in {"idle", "done"}

\* C12: once all submits have finished, each of them by a different tenant,
\* the application_count of a property has grown from 0 by exactly the number
\* of submits for it that succeeded.
C12_NoLostApplicationCount ==
    (/\ Quiescent
     /\ \A r1, r2 \in ReqIds :
           (reqs[r1].pc = "done" /\ reqs[r2].pc = "done" /\ r1 # r2)
           => reqs[r1].caller # reqs[r2].caller) =>
        \A p \in PropIds :
            properties[p].application_count =
                Cardinality({r \in ReqIds : /\ reqs[r].kind = "create_application"
                                            /\ reqs[r].result = "ok"
                                            /\ reqs[r].property_id = p})

\* C13: once all add_favorite and remove_favorite requests have finished, each
\* of them without a failed storage call, the favorite_count of a property
\* equals the number of favorites rows that exist for it.
C13_NoLostFavoriteCount ==
    (/\ Quiescent
     /\ \A r \in ReqIds : reqs[r].result # "Failed") =>
        \A p \in PropIds :
            properties[p].favorite_count =
                Cardinality({i \in DOMAIN favorites : favorites[i].property_id = p})

\* C14: application_count and favorite_count of every property are never
\* negative, and a remove_favorite that read a favorite_count of 0 leaves the
\* count at 0.
C14_CountsNeverNegative ==
    /\ [](\A p \in PropIds : /\ properties[p].application_count >= 0
                             /\ properties[p].favorite_count >= 0)
    /\ [][\A r \in ReqIds :
            (/\ At(r, "remove_favorite", "write_count")
             /\ Returns(r, "ok")
             /\ reqs[r].count = 0)
            => properties'[reqs[r].property_id].favorite_count = 0]_vars

\* C14 witness: two remove_favorite requests for one favorite have both
\* decremented the count and it is 0
C14_Witness ==
    \E r1, r2 \in ReqIds :
        /\ r1 < r2
        /\ reqs[r1].kind = "remove_favorite" /\ reqs[r1].result = "ok"
        /\ reqs[r2].kind = "remove_favorite" /\ reqs[r2].result = "ok"
        /\ properties[reqs[r2].property_id].favorite_count = 0

\* C15: the status of a property becomes rented only in the last step of an
\* approve of one of its applications; no step of create_property,
\* update_property, delete_property, submit or reject makes a property rented.
C15_RentedOnlyByApprove ==
    [][\A p \in DOMAIN properties' :
          (/\ properties'[p].status = "rented"
           /\ p \in DOMAIN properties => properties[p].status # "rented")
          => \E r \in ReqIds :
                /\ At(r, "approve_application", "update_property")
                /\ Steps(r)
                /\ reqs[r].property_id = p]_vars

\* C16: a submit ends with DuplicateApplication at its existing-application
\* check exactly when the tenant has an application for the property in status
\* submitted or under_review; applications of the pair that are approved or
\* rejected do not block it.
C16_DuplicateOnlyIfNonTerminal ==
    [][\A r \in ReqIds :
          (At(r, "create_application", "check_existing") /\ Steps(r)) =>
          (Returns(r, "DuplicateApplication")
           <=> \E a \in ExistingApps(reqs[r].caller, reqs[r].property_id) :
                  applications[a].status \in {"submitted", "under_review"})]_vars

\* the presence of the five fields of a tenants row; a field is present when
\* the handlers do not report it missing: not NULL, not 0, not empty
PresentFields(row) ==
    (IF TruthyNum(row.budget) THEN {"budget"} ELSE {})
    \cup (IF TruthyStr(row.preferred_location) THEN {"preferred_location"} ELSE {})
    \cup (IF TruthyStr(row.documents.id_document) THEN {"id_document"} ELSE {})
    \cup (IF TruthyStr(row.documents.proof_of_income) THEN {"proof_of_income"} ELSE {})
    \cup (IF row.onboarding_completed THEN {"onboarding_completed"} ELSE {})

\* the table of the claim over the set of present fields
CompletionTable(present) ==
    IF "onboarding_completed" \in present THEN 100
    ELSE IF {"id_document", "proof_of_income"} \subseteq present THEN 67
    ELSE IF {"budget", "preferred_location"} \subseteq present THEN 33
    ELSE 0

\* C17: the completion that a profile-status request computes for a stored
\* profile is the table's value for the fields present in it: 100 if
\* onboarding_completed, else 67 if both documents, else 33 if budget and
\* preferred_location, else 0. It is 0 for the empty profile, 100 for the
\* complete one, and no profile with more fields present has a lower value.
C17_CompletionTable ==
    \A r \in ReqIds :
        (reqs[r].kind = "get_profile_status" /\ reqs[r].pc = "done") =>
        LET row == tenants[reqs[r].caller]
            completion == reqs[r].completion
        IN  /\ completion = CompletionTable(PresentFields(row))
            /\ PresentFields(row) = {} => completion = 0
            /\ Cardinality(PresentFields(row)) = 5 => completion = 100
            /\ \A more \in ProfileRows :
                  PresentFields(row) \subseteq PresentFields(more)
                  => calculate_profile_completion(more) >= completion

\* C17 witness: the status of a profile with both documents and without
\* budget and preferred_location was computed as 67
C17_Witness ==
    \E r \in ReqIds :
        /\ reqs[r].kind = "get_profile_status" /\ reqs[r].pc = "done"
        /\ reqs[r].completion = 67
        /\ PresentFields(tenants[reqs[r].caller]) = {"id_document", "proof_of_income"}

\* C18: whenever no profile request of a tenant is in progress and none of
\* them has failed, the stored profile_completion of the tenant equals
\* calculate_profile_completion of the stored fields.
C18_StoredCompletionDerived ==
    \A t \in TenantIds :
        (\A r \in ReqIds :
            (reqs[r].caller = t /\ reqs[r].kind \in {"update_tenant_profile", "complete_profile"})
            => (reqs[r].pc = "done" /\ reqs[r].result # "Failed"))
        => tenants[t].profile_completion = calculate_profile_completion(tenants[t])

\* C19: once onboarding_completed of a tenant is true, no step of any request
\* sets it back to false.
C19_OnboardingMonotonic ==
    [][\A t \in TenantIds :
          tenants[t].onboarding_completed = TRUE
          => tenants'[t].onboarding_completed = TRUE]_vars

\* C19 witness: an update_profile cleared the budget that a complete_profile
\* had stored, and onboarding_completed is still true
C19_Witness ==
    \E r1, r2 \in ReqIds :
        /\ reqs[r1].kind = "complete_profile" /\ reqs[r1].result = "ok"
        /\ reqs[r2].kind = "update_tenant_profile" /\ reqs[r2].result = "ok"
        /\ reqs[r1].caller = reqs[r2].caller
        /\ tenants[reqs[r1].caller].budget = None
        /\ tenants[reqs[r1].caller].onboarding_completed = TRUE

\* C20: a complete_profile that succeeds leaves the trust score of the tenant
\* at 80 if its join_rent_credit is true and at 70 otherwise, whatever the
\* score was before; and every stored trust score is 50, 70 or 80.
C20_TrustScoreSet ==
    /\ [](\A u \in UserIds : users[u].trust_score \in {50, 70, 80})
    /\ [][\A r \in ReqIds :
            (reqs[r].kind = "complete_profile" /\ Returns(r, "ok"))
            => users'[reqs[r].caller].trust_score
                  = IF reqs[r].data.join_rent_credit THEN 80 ELSE 70]_vars

\* C20 witness: two complete_profile calls of one tenant have succeeded, the
\* score is 80 and the profile is approved
C20_Witness ==
    \E r1, r2 \in ReqIds :
        /\ r1 # r2
        /\ reqs[r1].kind = "complete_profile" /\ reqs[r1].result = "ok"
        /\ reqs[r2].kind = "complete_profile" /\ reqs[r2].result = "ok"
        /\ reqs[r1].caller = reqs[r2].caller
        /\ users[reqs[r1].caller].trust_score = 80
        /\ users[reqs[r1].caller].verification_status = "approved"

\* C21: whenever no request of a tenant is in progress, a complete_profile
\* that failed between its two writes included, the verification_status of
\* the tenant is approved exactly when the stored profile_completion is 100.
C21_ApprovedIffComplete ==
    \A t \in TenantIds :
        (\A r \in ReqIds : reqs[r].caller = t => reqs[r].pc = "done")
        => (users[t].verification_status = "approved"
            <=> tenants[t].profile_completion = 100)

\* C22: a listing returns to a tenant exactly the applications of that
\* tenant, to a landlord exactly the applications for properties of that
\* landlord, and ends with Forbidden for a caller of any other role.
C22_ListOwnApplications ==
    [][\A r \in ReqIds :
          (Steps(r) /\ reqs'[r].kind = "get_applications" /\ reqs'[r].pc = "done") =>
          LET u == reqs'[r].caller
              listed == reqs'[r].data
          IN  /\ u \in TenantIds =>
                    /\ reqs'[r].result = "ok"
                    /\ \A a \in DOMAIN applications :
                          a \in listed <=> applications[a].tenant_id = u
              /\ u \in LandlordIds =>
                    /\ reqs'[r].result = "ok"
                    /\ \A a \in DOMAIN applications :
                          a \in listed
                          <=> properties[applications[a].property_id].landlord_id = u
              /\ u \notin TenantIds \cup LandlordIds =>
                    /\ reqs'[r].result = "Forbidden"
                    /\ listed = <<>>]_vars

\* C22 witness: t1 listed the own application only, l2, who owns no property,
\* listed nothing, and an application of t2 exists
C22_Witness ==
    \E r1, r2 \in ReqIds :
        /\ reqs[r1].kind = "get_applications" /\ reqs[r1].caller = "l2"
        /\ reqs[r1].result = "ok" /\ reqs[r1].data = {} /\ r1 > r2
        /\ reqs[r2].kind = "get_applications" /\ reqs[r2].caller = "t1"
        /\ reqs[r2].result = "ok" /\ reqs[r2].data = {1}
        /\ \E a \in DOMAIN applications : applications[a].tenant_id = "t2"

\* C23: the status of an escrow transaction changes only from held, and
\* released_at and refunded_at of a transaction are never both set.
C23_EscrowChangesOnce ==
    [][\A i \in DOMAIN transactions :
          /\ transactions'[i].status # transactions[i].status
             => transactions[i].status = "held"
          /\ ~(transactions'[i].released_at # Null /\ transactions'[i].refunded_at # Null)]_vars

\* C24: when a submit returns success, the application row it inserted, a
\* held escrow transaction for that application and the counter value it
\* wrote are in storage.
C24_SuccessMeansStored ==
    [][\A r \in ReqIds :
          (reqs[r].kind = "create_application" /\ Returns(r, "ok")) =>
          LET a == reqs[r].application IN
          /\ a \in DOMAIN applications'
          /\ applications'[a].tenant_id = reqs[r].caller
          /\ \E i \in DOMAIN transactions' :
                /\ transactions'[i].application_id = a
                /\ transactions'[i].status = "held"
          /\ properties'[reqs[r].property_id].application_count = reqs[r].count + 1]_vars

\* C25: a submit checks the role of the caller, then the stored profile gate,
\* then the property, then the existing applications of the pair, and ends
\* with Forbidden, ProfileIncomplete, NotFound or DuplicateApplication at the
\* first check that fails; a submit that ends so changes no table.
C25_PreconditionOrder ==
    [][\A r \in ReqIds :
          (Steps(r) /\ reqs'[r].kind = "create_application") =>
          LET q == reqs[r]
              n == reqs'[r]
              u == n.caller
              p == n.property_id
          IN
          /\ q.pc = "idle" =>
                IF u \notin TenantIds THEN Returns(r, "Forbidden")
                                      ELSE n.pc = "check_profile"
          /\ q.pc = "check_profile" =>
                IF tenants[u].profile_completion < 100
                THEN Returns(r, "ProfileIncomplete") ELSE n.pc = "check_property"
          /\ q.pc = "check_property" =>
                IF p \notin DOMAIN properties
                THEN Returns(r, "NotFound") ELSE n.pc = "check_existing"
          /\ q.pc = "check_existing" =>
                IF \E a \in DOMAIN applications :
                      applications[a].tenant_id = u /\ applications[a].property_id = p
                THEN Returns(r, "DuplicateApplication") ELSE n.pc = "insert_app"
          /\ n.pc = "insert_app" => q.pc = "check_existing"
          /\ n.result \in {"Forbidden", "ProfileIncomplete", "NotFound",
                           "DuplicateApplication"} => UNCHANGED tables]_vars

\* C25 witness: for the property that does not exist, the landlord was
\* refused for the role, the tenant with the incomplete profile for the
\* profile, and the tenant with the complete profile for the property
C25_Witness ==
    \E r1, r2, r3 \in ReqIds :
        /\ reqs[r1].kind = "create_application" /\ reqs[r1].caller = "l1"
        /\ reqs[r1].result = "Forbidden"
        /\ reqs[r2].kind = "create_application" /\ reqs[r2].caller = "t2"
        /\ reqs[r2].property_id = "p0" /\ reqs[r2].result = "ProfileIncomplete"
        /\ reqs[r3].kind = "create_application" /\ reqs[r3].caller = "t1"
        /\ reqs[r3].property_id = "p0" /\ reqs[r3].result = "NotFound"
        /\ applications = <<>> /\ transactions = <<>>

\* an update_profile request that clears budget or preferred_location
ClearsPreferences(q) ==
    /\ q.kind = "update_tenant_profile"
    /\ \/ "budget" \in q.data.fields /\ q.data.budget = None
       \/ "preferred_location" \in q.data.fields /\ q.data.preferred_location = None

\* C26 (as the code behaves): an update_profile that clears budget or
\* preferred_location of a tenant whose stored profile_completion is 100 with
\* onboarding_completed set computes a completion of 100 from the updated
\* row, and when it returns successfully the stored profile_completion is 100.
C26_ClearedStays100 ==
    [][\A r \in ReqIds :
          LET t == reqs[r].caller IN
          /\ (/\ At(r, "update_tenant_profile", "update_tenant")
              /\ ClearsPreferences(reqs[r])
              /\ tenants[t].onboarding_completed = TRUE
              /\ tenants[t].profile_completion = 100
              /\ reqs'[r].pc = "update_completion")
             => /\ reqs'[r].completion = 100
                /\ tenants'[t].profile_completion = 100
                /\ ~(TruthyNum(tenants'[t].budget)
                     /\ TruthyStr(tenants'[t].preferred_location))
          /\ (/\ At(r, "update_tenant_profile", "update_completion")
              /\ ClearsPreferences(reqs[r])
              /\ reqs[r].completion = 100
              /\ Returns(r, "ok"))
             => tenants'[t].profile_completion = 100]_vars

\* C26 witness: after a complete_profile an update_profile cleared the budget
\* and returned, and the stored profile_completion is 100
C26_Witness ==
    \E r1, r2 \in ReqIds :
        /\ r1 < r2
        /\ reqs[r1].kind = "complete_profile" /\ reqs[r1].result = "ok"
        /\ reqs[r2].kind = "update_tenant_profile" /\ reqs[r2].result = "ok"
        /\ reqs[r1].caller = reqs[r2].caller
        /\ tenants[reqs[r1].caller].budget = None
        /\ tenants[reqs[r1].caller].onboarding_completed = TRUE
        /\ tenants[reqs[r1].caller].profile_completion = 100

\* C26 (as stated): an update_profile that clears budget or preferred_location
\* of a tenant who has reached profile_completion 100 with
\* onboarding_completed set ends with a stored profile_completion below 100.
C26_ClearedBelow100 ==
    [][\A r \in ReqIds :
          LET t == reqs[r].caller IN
          (/\ At(r, "update_tenant_profile", "update_completion")
           /\ ClearsPreferences(reqs[r])
           /\ tenants[t].onboarding_completed = TRUE
           /\ Returns(r, "ok"))
          => tenants'[t].profile_completion < 100]_vars

\* C27: no step of an update_profile request that changes neither budget nor
\* preferred_location nor the documents lowers the stored profile_completion
\* of its tenant, whatever other requests of the tenant run beside it.
C27_UnrelatedUpdateNeverLowers ==
    [][\A r \in ReqIds :
          (/\ reqs[r].kind = "update_tenant_profile"
           /\ reqs[r].pc # "done"
           /\ reqs[r].data.fields = {}
           /\ Steps(r))
          => tenants'[reqs[r].caller].profile_completion
                >= tenants[reqs[r].caller].profile_completion]_vars

\* C28: an approve by the landlord of the property goes on to its writes
\* whenever the application exists and is submitted, whatever the status and
\* deleted_at of the property are, and its last write makes the property
\* rented: a second application of a rented property and an application of a
\* soft-deleted property are approved like any other.
C28_ApproveIgnoresPropertyState ==
    [][\A r \in ReqIds :
          LET a == reqs[r].application_id
              p == reqs[r].property_id
          IN
          /\ (/\ At(r, "approve_application", "fetch")
              /\ Steps(r)
              /\ a \in DOMAIN applications
              /\ properties[applications[a].property_id].landlord_id = reqs[r].caller
              /\ applications[a].status = "submitted")
             => reqs'[r].pc = "update_app"
          /\ (/\ At(r, "approve_application", "update_app")
              /\ Steps(r)
              /\ reqs'[r].result # "Failed")
             => applications'[a].status = "approved"
          /\ (reqs[r].kind = "approve_application" /\ Returns(r, "ok"))
             => properties'[p].status = "rented"]_vars

\* C28 witness: both applications for the property are approved, and the
\* property, soft-deleted before the second approve began, is rented
C28_Witness ==
    /\ applications[1].status = "approved"
    /\ applications[2].status = "approved"
    /\ applications[1].property_id = applications[2].property_id
    /\ properties["p1"].deleted_at # Null
    /\ properties["p1"].status = "rented"
    /\ \E r1, r2, r3 \in ReqIds :
          /\ r1 < r2 /\ r2 < r3
          /\ reqs[r1].kind = "approve_application" /\ reqs[r1].result = "ok"
          /\ reqs[r2].kind = "delete_property" /\ reqs[r2].result = "ok"
          /\ reqs[r3].kind = "approve_application" /\ reqs[r3].result = "ok"

\* C29: no step of any request lowers the application_count of a property:
\* approve, reject, update_property and delete_property leave it as it is,
\* and every write of a submit stores at least the value stored before it.
C29_ApplicationCountNeverDecreases ==
    [][\A p \in DOMAIN properties :
          properties'[p].application_count >= properties[p].application_count]_vars

\* C30: in every state an approved or rejected application has reviewed_at
\* set and reviewed_by equal to the landlord_id of its property, a submitted
\* application has neither set, and the recorded reviewer is never a tenant,
\* an admin or a landlord who does not own the property; the request that
\* decides an application records its own caller, the landlord_id it read.
C30_ReviewAttribution ==
    /\ [](\A a \in DOMAIN applications :
            LET row == applications[a] IN
            /\ row.status \in Terminal
               => /\ row.reviewed_by = properties[row.property_id].landlord_id
                  /\ row.reviewed_at # Null
            /\ row.status = "submitted"
               => /\ row.reviewed_by = Null
                  /\ row.reviewed_at = Null
            /\ row.reviewed_by \in {Null, properties[row.property_id].landlord_id})
    /\ [][\A r \in ReqIds :
            (/\ reqs[r].kind \in ReviewKinds
             /\ reqs[r].pc = "update_app"
             /\ Steps(r)
             /\ reqs'[r].result # "Failed")
            => /\ applications'[reqs[r].application_id].reviewed_by = reqs[r].caller
               /\ reqs[r].caller = properties[reqs[r].property_id].landlord_id]_vars

\* C30 witness: the owner l1 approved the application and is its recorded
\* reviewer, after approves of the same application by the landlord l2 and
\* by the admin were refused
C30_Witness ==
    \E r1, r2, r3 \in ReqIds :
        /\ reqs[r1].kind = "approve_application" /\ reqs[r1].caller = "l2"
        /\ reqs[r1].result = "Forbidden"
        /\ reqs[r2].kind = "approve_application" /\ reqs[r2].caller = "a1"
        /\ reqs[r2].result = "Forbidden"
        /\ reqs[r3].kind = "approve_application" /\ reqs[r3].caller = "l1"
        /\ reqs[r3].result = "ok"
        /\ applications[reqs[r3].application_id].status = "approved"
        /\ applications[reqs[r3].application_id].reviewed_by = "l1"
        /\ applications[reqs[r3].application_id].reviewed_at # Null

=============================================================================
